---- MODULE Spec2Model ----
(***************************************************************************)
(* Trade simulation against a local price table.                           *)
(*                                                                         *)
(* The model follows src/小川試作品環境/trade_simulation.py and the module  *)
(* it was copied from, src/売買シミュレーション.py (operators with the     *)
(* suffix _orig).  Dates are day numbers, labels are tuples of characters, *)
(* a call either returns a value or raises a Python exception.             *)
(***************************************************************************)
EXTENDS Integers, Sequences, FiniteSets, TLC

VARIABLES
    prices_df,      \* the price table: index (trading days), columns, cells
    dividends_df,   \* the dividend table handed to the call, or None
    args,           \* the arguments of the call that was made
    locals,         \* locals of simulate_trade after the call: buy_idx, sell_idx, col
    pc,             \* "idle" before the call, "done" after it
    result,         \* outcome of the call in trade_simulation.py
    result_orig,    \* outcome of the same call in 売買シミュレーション.py
    prices_file,    \* the price file the command line finds, or None
    runs            \* finished command-line runs of trade_simulation.py

vars == <<prices_df, dividends_df, args, locals, pc, result, result_orig, prices_file, runs>>

----------------------------------------------------------------------------
(* Bounds *)

MaxDay == 3

Days == 0 .. MaxDay

----------------------------------------------------------------------------
(* Values *)

\* Python's None, and a present optional value
None == <<>>

Some(v) == <<v>>

\* A call returns a value ...
Return(v) == [tag |-> "return", exc |-> "", site |-> "", val |-> <<v>>, info |-> <<>>]

\* ... or raises exception class e at the raise statement named by s; info is
\* what the message carries besides its text
RaiseInfo(e, s, i) == [tag |-> "raise", exc |-> e, site |-> s, val |-> <<>>, info |-> i]

Raise(e, s) == RaiseInfo(e, s, <<>>)

Returned(r) == r.tag = "return"

Raised(r) == r.tag = "raise"

ValueOf(r) == r.val[1]

NoCall == [tag |-> "none", exc |-> "", site |-> "", val |-> <<>>, info |-> <<>>]

\* strictly ascending sequences of days: the date axis of a price table
RECURSIVE SetToSeq(_)
SetToSeq(S) ==
    IF S = {} THEN <<>>
    ELSE LET m == CHOOSE x \in S : \A y \in S : x <= y
         IN  <<m>> \o SetToSeq(S \ {m})

Axes == {SetToSeq(S) : S \in SUBSET Days}

NoTable(dates) == [index |-> dates, columns |-> <<>>, cells |-> <<>>]

----------------------------------------------------------------------------
(* Trading-day locator *)

\* dates.searchsorted(target), side="left": binary search for the insertion
\* point that keeps the axis sorted, before any equal entry
RECURSIVE bisect_left(_, _, _, _)
bisect_left(a, x, lo, hi) ==
    IF lo >= hi THEN lo
    ELSE LET mid == (lo + hi) \div 2
         IN  IF a[mid + 1] < x
             THEN bisect_left(a, x, mid + 1, hi)
             ELSE bisect_left(a, x, lo, mid)

\* the mutation side="right": the insertion point after any equal entry
RECURSIVE bisect_right(_, _, _, _)
bisect_right(a, x, lo, hi) ==
    IF lo >= hi THEN lo
    ELSE LET mid == (lo + hi) \div 2
         IN  IF a[mid + 1] <= x
             THEN bisect_right(a, x, mid + 1, hi)
             ELSE bisect_right(a, x, lo, mid)

searchsorted_right(dates, target) == bisect_right(dates, target, 0, Len(dates))

searchsorted(dates, target) == bisect_left(dates, target, 0, Len(dates))

\* indices are 0-based as in the source; dates[i] is DateAt(dates, i)
DateAt(dates, i) == dates[i + 1]

_get_nearest_date_index(dates, target, direction) ==
    LET i == searchsorted(dates, target)
    IN  IF direction = "next"
        THEN IF i >= Len(dates)
             THEN Raise("IndexError", "_get_nearest_date_index:next")
             ELSE Return(i)
        ELSE IF i = 0
             THEN Raise("IndexError", "_get_nearest_date_index:prev")
             ELSE Return(i - 1)

\* One call of the locator on the axis of the table
Locate(direction) ==
    /\ pc = "idle"
    /\ \E target \in Days :
          /\ args' = [call |-> "_get_nearest_date_index", target |-> target,
                      direction |-> direction]
          /\ result' = _get_nearest_date_index(prices_df.index, target, direction)
          /\ result_orig' = _get_nearest_date_index(prices_df.index, target, direction)
    /\ pc' = "done"
    /\ UNCHANGED <<prices_df, dividends_df, locals, prices_file, runs>>

LocateNext == Locate("next")

LocatePrev == Locate("prev")

InitLocate ==
    /\ prices_df \in {NoTable(d) : d \in Axes}
    /\ dividends_df = None
    /\ args = None
    /\ locals = None
    /\ pc = "idle"
    /\ result = NoCall
    /\ result_orig = NoCall
    /\ prices_file = None
    /\ runs = <<>>

NextLocate == LocateNext \/ LocatePrev

SpecLocate == InitLocate /\ [][NextLocate]_vars

\* what the locator is specified to find
DaysAtOrAfter(dates, target) == {i \in 0 .. Len(dates) - 1 : DateAt(dates, i) >= target}

DaysAtOrBefore(dates, target) == {i \in 0 .. Len(dates) - 1 : DateAt(dates, i) <= target}

Least(S) == CHOOSE x \in S : \A y \in S : x <= y

Greatest(S) == CHOOSE x \in S : \A y \in S : x >= y

\* C1: backward locate returns the index of the largest trading day <= target,
\* and fails only when the target precedes every available day (so a target
\* that is itself a trading day resolves to that day's index).
C1_BackwardLocate ==
    (pc = "done" /\ args.direction # "next") =>
        LET S == DaysAtOrBefore(prices_df.index, args.target)
        IN  IF S = {} THEN Raised(result)
            ELSE result = Return(Greatest(S))

\* C2: forward locate returns the index of the smallest trading day >= target,
\* and raises the no-trading-day error exactly when the target is later than
\* every available day.
C2_ForwardLocate ==
    (pc = "done" /\ args.direction = "next") =>
        LET S == DaysAtOrAfter(prices_df.index, args.target)
        IN  IF S = {}
            THEN result = Raise("IndexError", "_get_nearest_date_index:next")
            ELSE result = Return(Least(S))

\* C2 witness: the requested day is not a trading day and the next one is taken
C2_Witness ==
    /\ pc = "done"
    /\ args.direction = "next"
    /\ Returned(result)
    /\ DateAt(prices_df.index, ValueOf(result)) > args.target
    /\ ValueOf(result) > 0

----------------------------------------------------------------------------
(* Ticker resolver *)

MaxCols == 3

SampleSize == 20

Digits == {"0", "1", "2", "3", "4", "5", "6", "7", "8", "9"}

Min(a, b) == IF a <= b THEN a ELSE b

\* labels and ticker tokens are tuples of characters
T_3382uT == <<"3", "3", "8", "2", "_", "T">>

T_3382dT == <<"3", "3", "8", "2", ".", "T">>

T_3382 == <<"3", "3", "8", "2">>

T_33uT == <<"3", "3", "_", "T">>

T_33dT == <<"3", "3", ".", "T">>

T_1234567 == <<"1", "2", "3", "4", "5", "6", "7">>

T_123456dT == <<"1", "2", "3", "4", "5", "6", ".", "T">>

T_13382dT == <<"1", "3", "3", "8", "2", ".", "T">>

T_33824 == <<"3", "3", "8", "2", "4">>

T_1332dT == <<"1", "3", "3", "2", ".", "T">>

TickerTokens == {T_3382uT, T_3382dT, T_3382, T_33uT, T_1234567}

ColumnLabels == {T_3382dT, T_3382uT, T_13382dT, T_33824, T_123456dT, T_33dT}

\* lists of distinct labels, at most n of them
RECURSIVE ColumnLists(_, _)
ColumnLists(L, n) ==
    IF n = 0 THEN {<<>>}
    ELSE LET shorter == ColumnLists(L, n - 1)
         IN  shorter \cup
             {Append(c, l) : c \in {x \in shorter : Len(x) = n - 1},
                             l \in L}

Distinct(c) == \A i, j \in 1 .. Len(c) : i # j => c[i] # c[j]

\* x in cols
In(x, cols) == \E i \in 1 .. Len(cols) : cols[i] = x

\* str.replace(old, new) for one-character old and new
replace(s, old, new) == [i \in 1 .. Len(s) |-> IF s[i] = old THEN new ELSE s[i]]

\* c.startswith(code)
startswith(c, code) == Len(c) >= Len(code) /\ SubSeq(c, 1, Len(code)) = code

\* code in c
contains(code, c) ==
    \E k \in 0 .. Len(c) - Len(code) : SubSeq(c, k + 1, k + Len(code)) = code

\* the number of digits the ticker starts with, from position i on
RECURSIVE digit_run(_, _)
digit_run(s, i) ==
    IF i > Len(s) \/ s[i] \notin Digits THEN 0 ELSE 1 + digit_run(s, i + 1)

\* re.match(r"^(\d{3,6})", ticker): None, or the greedy group of 3 to 6 digits
re_match_code(ticker) ==
    LET n == digit_run(ticker, 1)
    IN  IF n < 3 THEN None ELSE Some(SubSeq(ticker, 1, Min(n, 6)))

\* for c in cols: if test(c): return c  -- the index of the first hit, or 0
RECURSIVE first_startswith(_, _, _)
first_startswith(cols, code, i) ==
    IF i > Len(cols) THEN 0
    ELSE IF startswith(cols[i], code) THEN i
    ELSE first_startswith(cols, code, i + 1)

RECURSIVE first_contains(_, _, _)
first_contains(cols, code, i) ==
    IF i > Len(cols) THEN 0
    ELSE IF contains(code, cols[i]) THEN i
    ELSE first_contains(cols, code, i + 1)

RECURSIVE first_either(_, _, _)
first_either(cols, code, i) ==
    IF i > Len(cols) THEN 0
    ELSE IF startswith(cols[i], code) \/ contains(code, cols[i]) THEN i
    ELSE first_either(cols, code, i + 1)

TickerNotFound(cols) ==
    RaiseInfo("KeyError", "_find_column_for_ticker",
              SubSeq(cols, 1, Min(Len(cols), SampleSize)))

\* the mutation that tests prefix and substring in one loop over the columns
_find_column_for_ticker_one_loop(df, ticker) ==
    LET cols == df.columns
        alt == replace(ticker, "_", ".")
        alt2 == replace(ticker, ".", "_")
        m == re_match_code(ticker)
    IN  IF In(ticker, cols) THEN Return(ticker)
        ELSE IF In(alt, cols) THEN Return(alt)
        ELSE IF In(alt2, cols) THEN Return(alt2)
        ELSE IF m # None /\ first_either(cols, m[1], 1) # 0
             THEN Return(cols[first_either(cols, m[1], 1)])
        ELSE TickerNotFound(cols)

_find_column_for_ticker(df, ticker) ==
    LET cols == df.columns
        alt == replace(ticker, "_", ".")
        alt2 == replace(ticker, ".", "_")
        m == re_match_code(ticker)
    IN  IF In(ticker, cols) THEN Return(ticker)
        ELSE IF In(alt, cols) THEN Return(alt)
        ELSE IF In(alt2, cols) THEN Return(alt2)
        ELSE IF m # None /\ first_startswith(cols, m[1], 1) # 0
             THEN Return(cols[first_startswith(cols, m[1], 1)])
        ELSE IF m # None /\ first_contains(cols, m[1], 1) # 0
             THEN Return(cols[first_contains(cols, m[1], 1)])
        ELSE TickerNotFound(cols)

\* One resolution of a ticker token against the columns of the table
Resolve ==
    /\ pc = "idle"
    /\ \E ticker \in TickerTokens :
          /\ args' = [call |-> "_find_column_for_ticker", ticker |-> ticker]
          /\ result' = _find_column_for_ticker(prices_df, ticker)
    /\ pc' = "done"
    /\ UNCHANGED <<prices_df, dividends_df, locals, result_orig, prices_file, runs>>

InitTicker ==
    /\ prices_df \in {[index |-> <<>>, columns |-> c, cells |-> <<>>] :
                        c \in {x \in ColumnLists(ColumnLabels, MaxCols) : Distinct(x)}}
    /\ dividends_df = None
    /\ args = None
    /\ locals = None
    /\ pc = "idle"
    /\ result = NoCall
    /\ result_orig = NoCall
    /\ prices_file = None
    /\ runs = <<>>

NextTicker == Resolve

SpecTicker == InitTicker /\ [][NextTicker]_vars

\* the rules of the resolver, stated on the labels
IsDigitCode(code, ticker) ==
    /\ Len(code) \in 3 .. 6
    /\ Len(code) <= Len(ticker)
    /\ \A i \in 1 .. Len(code) : ticker[i] = code[i] /\ code[i] \in Digits
    /\ (Len(code) < 6 /\ Len(ticker) > Len(code)) => ticker[Len(code) + 1] \notin Digits

UnderscoresToDots(t) == [i \in 1 .. Len(t) |-> IF t[i] = "_" THEN "." ELSE t[i]]

DotsToUnderscores(t) == [i \in 1 .. Len(t) |-> IF t[i] = "." THEN "_" ELSE t[i]]

PrefixHits(cols, ticker) ==
    {i \in 1 .. Len(cols) :
        \E n \in 3 .. 6 :
            /\ n <= Len(cols[i])
            /\ IsDigitCode(SubSeq(cols[i], 1, n), ticker)}

SubstringHits(cols, ticker) ==
    {i \in 1 .. Len(cols) :
        \E n \in 3 .. 6 : \E k \in 0 .. Len(cols[i]) - n :
            IsDigitCode(SubSeq(cols[i], k + 1, k + n), ticker)}

RuleOf(cols, ticker) ==
    IF In(ticker, cols) THEN "exact"
    ELSE IF In(UnderscoresToDots(ticker), cols) \/ In(DotsToUnderscores(ticker), cols)
         THEN "separator"
    ELSE IF PrefixHits(cols, ticker) # {} THEN "prefix"
    ELSE IF SubstringHits(cols, ticker) # {} THEN "substring"
    ELSE "none"

\* C4: the resolver returns the label chosen by the first matching rule in the
\* order exact > separator substitution ('_' to '.', then '.' to '_') > first
\* column starting with the leading 3-6 digit code > first column containing
\* it; the label is a column of the table; it raises the ticker-not-found
\* error, with at most 20 sample labels, exactly when no rule matches.
C4_TickerResolution ==
    (pc = "done") =>
        LET cols == prices_df.columns
            ticker == args.ticker
            rule == RuleOf(cols, ticker)
        IN  /\ Returned(result) => In(ValueOf(result), cols)
            /\ Raised(result) <=> rule = "none"
            /\ Raised(result) =>
                  /\ result.exc = "KeyError"
                  /\ result.site = "_find_column_for_ticker"
                  /\ Len(result.info) <= 20
                  /\ \A i \in 1 .. Len(result.info) : result.info[i] = cols[i]
            /\ rule = "exact" => result = Return(ticker)
            /\ rule = "separator" =>
                  result = Return(IF In(UnderscoresToDots(ticker), cols)
                                  THEN UnderscoresToDots(ticker)
                                  ELSE DotsToUnderscores(ticker))
            /\ rule = "prefix" => result = Return(cols[Least(PrefixHits(cols, ticker))])
            /\ rule = "substring" =>
                  result = Return(cols[Least(SubstringHits(cols, ticker))])

\* C4 witness: "3382_T" resolves to the column "3382.T" although an earlier
\* column contains the code 3382
C4_Witness ==
    /\ pc = "done"
    /\ args.ticker = T_3382uT
    /\ Len(prices_df.columns) >= 2
    /\ prices_df.columns[1] = T_13382dT
    /\ result = Return(T_3382dT)

\* C4 witness of the fallback rules: the code 3382 of "3382" picks the first
\* column that starts with it, not an earlier one that only contains it
C4_WitnessPrefix ==
    /\ pc = "done"
    /\ args.ticker = T_3382
    /\ prices_df.columns = <<T_13382dT, T_33824, T_3382dT>>
    /\ result = Return(T_33824)

----------------------------------------------------------------------------
(* Dividend window checker *)

MaxRows == 2

\* pd.to_datetime of a range index counts nanoseconds from 1970-01-01, day 0
Epoch == 0

\* a Timestamp is <<day>>; NaT is <<>>
NaT == <<>>

\* a date cell of a CSV column: text that parses to a day, or text that does not
DateText(d) == [parses |-> TRUE, day |-> d]

BadText == [parses |-> FALSE, day |-> 0]

DateTexts == {DateText(d) : d \in Days} \cup {BadText}

DivTickers == {T_3382uT, T_3382dT}

\* A dividend table: date_col names the column that holds row.date ("" when
\* the dates are the index), index is "dates" or "range" (0, 1, ...),
\* has_ticker says whether there is a "ticker" column, and tz whether the
\* dates of the date column carry a time zone.
DivTable(date_col, index, has_ticker, rows) ==
    [date_col |-> date_col, index |-> index, has_ticker |-> has_ticker,
     tz |-> FALSE, rows |-> rows]

DivRow(idx, date, ticker) == [idx |-> idx, date |-> date, ticker |-> ticker]

RECURSIVE SeqsUpTo(_, _)
SeqsUpTo(S, n) ==
    IF n = 0 THEN {<<>>}
    ELSE LET shorter == SeqsUpTo(S, n - 1)
         IN  shorter \cup
             {Append(c, x) : c \in {y \in shorter : Len(y) = n - 1}, x \in S}

\* rows of a table read from a CSV file: the index is the row number
Numbered(rows) == [i \in 1 .. Len(rows) |-> [rows[i] EXCEPT !.idx = i - 1]]

\* tables with a "date" column (and maybe a "ticker" column)
DateColumnTables ==
    {DivTable("date", "range", t, Numbered(r)) :
        t \in BOOLEAN,
        r \in SeqsUpTo({DivRow(0, d, k) : d \in DateTexts, k \in DivTickers}, MaxRows)}

\* Midnight in a zone east of UTC is an instant of the previous day in UTC.
UtcShift == 1

\* tables whose "date" column holds midnights of a zone east of UTC, as
\* yfinance gives them for Tokyo listings: row.date.day is the local day
ZonedDateColumnTables ==
    {[df EXCEPT !.tz = TRUE] :
        df \in {x \in DateColumnTables :
                   \E i \in 1 .. Len(x.rows) : x.rows[i].date.parses}}

\* tables indexed by date (no date column: row.date is not read)
DateIndexTables ==
    {DivTable("", "dates", t, r) :
        t \in BOOLEAN,
        r \in SeqsUpTo({DivRow(d, BadText, k) : d \in Days, k \in DivTickers}, MaxRows)}

\* tables as devide_test.py writes them: columns "Date" and "Dividend"
CapitalDateTables ==
    {DivTable("Date", "range", FALSE, Numbered(r)) :
        r \in SeqsUpTo({DivRow(0, DateText(d), T_3382dT) : d \in Days}, MaxRows)}

\* the "ticker" column is read only when the table has one
WellFormedDiv(df) ==
    df.has_ticker \/ \A i \in 1 .. Len(df.rows) : df.rows[i].ticker = T_3382dT

DividendTables ==
    {df \in DateColumnTables \cup ZonedDateColumnTables \cup DateIndexTables
               \cup CapitalDateTables : WellFormedDiv(df)}

\* pd.to_datetime(..., errors="coerce") of one cell
to_datetime_coerce(cell) == IF cell.parses THEN <<cell.day>> ELSE NaT

\* s.dt.tz_convert(None) when s.dt.tz is not None, then s.dt.normalize(): the
\* instant is expressed in UTC, the zone is dropped, the time of day is cut
tz_convert_none(df, ts) ==
    IF df.tz /\ ts # NaT THEN <<ts[1] - UtcShift>> ELSE ts

\* pd.to_datetime(df.index).normalize() of one index label
index_to_datetime(df, row) == IF df.index = "dates" THEN <<row.idx>> ELSE <<Epoch>>

\* the "date" column after lines 79-93, one Timestamp per row
date_column(df) ==
    [i \in 1 .. Len(df.rows) |->
        IF df.date_col = "date"
        THEN tz_convert_none(df, to_datetime_coerce(df.rows[i].date))
        ELSE index_to_datetime(df, df.rows[i])]

\* rows kept by df[df["ticker"] == ticker], when there is a ticker column
kept_rows(df, ticker) ==
    {i \in 1 .. Len(df.rows) : df.has_ticker => df.rows[i].ticker = ticker}

\* the mutation with an exclusive upper end of the period
mask_any_exclusive_end(df, ticker, start, end) ==
    \E i \in kept_rows(df, ticker) :
        /\ date_column(df)[i] # NaT
        /\ date_column(df)[i][1] >= start
        /\ date_column(df)[i][1] < end

\* mask = (df[date_col] >= start_ts) & (df[date_col] <= end_ts); mask.any()
mask_any(df, ticker, start, end) ==
    \E i \in kept_rows(df, ticker) :
        /\ date_column(df)[i] # NaT
        /\ date_column(df)[i][1] >= start
        /\ date_column(df)[i][1] <= end

dividends_in_period(df, ticker, start, end) ==
    IF df = None THEN Return(FALSE)
    ELSE Return(mask_any(df[1], ticker, start, end))

\* 売買シミュレーション.py parses the "date" column without errors="coerce"
\* and keeps its zone: a zoned column is then compared with the zone-naive
\* start, which pandas refuses with a TypeError
dividends_in_period_orig(df, ticker, start, end) ==
    IF df = None THEN Return(FALSE)
    ELSE IF /\ df[1].date_col = "date"
            /\ \E i \in 1 .. Len(df[1].rows) : ~df[1].rows[i].date.parses
         THEN Raise("ValueError", "dividends_in_period_orig:65")
    ELSE IF df[1].date_col = "date" /\ df[1].tz
         THEN Raise("TypeError", "dividends_in_period_orig:77")
    ELSE Return(mask_any(df[1], ticker, start, end))

\* One call of the dividend check
DividendsInPeriod ==
    /\ pc = "idle"
    /\ \E ticker \in DivTickers, start \in Days, end \in Days :
          /\ args' = [call |-> "dividends_in_period", ticker |-> ticker,
                      start |-> start, end |-> end]
          /\ result' = dividends_in_period(dividends_df, ticker, start, end)
          /\ result_orig' = dividends_in_period_orig(dividends_df, ticker, start, end)
    /\ pc' = "done"
    /\ UNCHANGED <<prices_df, dividends_df, locals, prices_file, runs>>

----------------------------------------------------------------------------
(* Trade simulator *)

MaxLen == 3

\* a price cell: a number, a gap (NaN after read_csv), or text that is no number
Num(n) == [t |-> "num", v |-> n]

NaN == [t |-> "nan", v |-> 0]

Text == [t |-> "str", v |-> 0]

CellValues == {Num(0), Num(1), NaN, Text}

\* price tables: cells[j][i] is the cell of column j at trading day i
PriceTables(axes, labels, ncols) ==
    UNION {[index : {d}, columns : {c}, cells : [1 .. Len(c) -> [1 .. Len(d) -> CellValues]]] :
              d \in axes, c \in {x \in ColumnLists(labels, ncols) : Distinct(x)}}

SimLabels == {T_3382dT, T_3382uT, T_1332dT}

SimTickers == {T_3382uT}

HoldLengths == {0, 1, 100}

SimTables == PriceTables({d \in Axes : Len(d) <= MaxLen}, SimLabels, 1)

SimDividends ==
    {None,
     Some(DivTable("date", "range", TRUE,
                   <<DivRow(0, DateText(1), T_3382uT), DivRow(1, BadText, T_3382dT)>>))}

_parse_date(d) ==
    IF d.parses THEN Return(d.day) ELSE Raise("ValueError", "_parse_date:20")

\* 売買シミュレーション.py lets the error of pd.to_datetime through, a ValueError
_parse_date_orig(d) ==
    IF d.parses THEN Return(d.day) ELSE Raise("ValueError", "_parse_date_orig:24")

\* position of a label on an axis (labels on an axis are distinct)
PositionOf(x, axis) == CHOOSE i \in 1 .. Len(axis) : axis[i] = x

\* the cell prices_df.at[date, col]
CellAt(df, date, col) == df.cells[PositionOf(col, df.columns)][PositionOf(date, df.index)]

\* float(prices_df.at[date, col]) inside try/except: the cell as a float, or
\* the KeyError raised by the except clause at the given line
price_at(df, date, col, site) ==
    IF ~In(col, df.columns) \/ ~In(date, df.index)
    THEN Raise("KeyError", site)
    ELSE IF CellAt(df, date, col).t = "str" THEN Raise("KeyError", site)
    ELSE Return(CellAt(df, date, col))

\* (sell_price - buy_price) / buy_price * 100.0 on Python floats; the prices
\* of CellValues divide without rounding
profit_pct(buy_price, sell_price, site) ==
    IF buy_price.t = "nan" THEN Return(NaN)
    ELSE IF buy_price.v = 0 THEN Raise("ZeroDivisionError", site)
    ELSE IF sell_price.t = "nan" THEN Return(NaN)
    ELSE Return(Num(((sell_price.v - buy_price.v) * 100) \div buy_price.v))

TradeResult(bd, sd, bp, sp, pp, div) ==
    [buy_date |-> bd, sell_date |-> sd, buy_price |-> bp, sell_price |-> sp,
     profit_pct |-> pp, dividends_occurred |-> div]

\* the mutation that adds the hold length without clamping to the last index
hold_sell_idx_unclamped(buy_idx, hold_days, dates) == buy_idx + hold_days

\* min(buy_idx + int(hold_days), len(dates) - 1)
hold_sell_idx(buy_idx, hold_days, dates) == Min(buy_idx + hold_days, Len(dates) - 1)

\* the mutation that tests hold_days before sell_date
resolve_sell_idx_hold_first(dates, buy_idx, sell_date, hold_days) ==
    IF hold_days # None
    THEN Return(hold_sell_idx(buy_idx, hold_days[1], dates))
    ELSE IF sell_date # None
    THEN LET sell_ts == _parse_date(sell_date[1])
         IN  IF Raised(sell_ts) THEN sell_ts
             ELSE _get_nearest_date_index(dates, ValueOf(sell_ts), "prev")
    ELSE Raise("ValueError", "simulate_trade:227")

\* lines 221-227: the index of the sell date
resolve_sell_idx(dates, buy_idx, sell_date, hold_days) ==
    IF sell_date # None
    THEN LET sell_ts == _parse_date(sell_date[1])
         IN  IF Raised(sell_ts) THEN sell_ts
             ELSE _get_nearest_date_index(dates, ValueOf(sell_ts), "prev")
    ELSE IF hold_days # None
    THEN Return(hold_sell_idx(buy_idx, hold_days[1], dates))
    ELSE Raise("ValueError", "simulate_trade:227")

\* lines 233-257: prices, profit and dividends once dates and column are resolved
settle_trade(ticker, df, dividends, actual_buy_date, actual_sell_date, col) ==
    LET buy_price == price_at(df, actual_buy_date, col, "simulate_trade:236")
    IN  IF Raised(buy_price) THEN buy_price
        ELSE
        LET sell_price == price_at(df, actual_sell_date, col, "simulate_trade:240")
        IN  IF Raised(sell_price) THEN sell_price
        ELSE
        LET pp == profit_pct(ValueOf(buy_price), ValueOf(sell_price), "simulate_trade:242")
        IN  IF Raised(pp) THEN pp
        ELSE
        LET div == IF dividends # None
                   THEN dividends_in_period(dividends, ticker,
                                            actual_buy_date, actual_sell_date)
                   ELSE Return(FALSE)
        IN  IF Raised(div) THEN div
        ELSE Return(TradeResult(actual_buy_date, actual_sell_date,
                                ValueOf(buy_price), ValueOf(sell_price),
                                ValueOf(pp), ValueOf(div)))

\* dates[i] with Python's indexing: negative indices count from the end, an
\* index outside the axis raises IndexError
dates_getitem(dates, i, site) ==
    IF 0 <= i /\ i < Len(dates) THEN Return(DateAt(dates, i))
    ELSE IF -Len(dates) <= i /\ i < 0 THEN Return(DateAt(dates, Len(dates) + i))
    ELSE Raise("IndexError", site)

\* the mutation whose result reports buy_ts, the date asked for, in place of
\* actual_buy_date
trade_frame_reports_buy_ts(ticker, buy_date, sell_date, hold_days, df, dividends) ==
    LET dates == df.index
        buy_ts == _parse_date(buy_date)
        buy_idx == IF Raised(buy_ts) THEN NoCall
                   ELSE _get_nearest_date_index(dates, ValueOf(buy_ts), "next")
        actual_buy_date == IF ~Returned(buy_idx) THEN NoCall
                           ELSE dates_getitem(dates, ValueOf(buy_idx), "simulate_trade:219")
        sell_idx == IF ~Returned(actual_buy_date) THEN NoCall
                    ELSE resolve_sell_idx(dates, ValueOf(buy_idx), sell_date, hold_days)
        actual_sell_date == IF ~Returned(sell_idx) THEN NoCall
                            ELSE dates_getitem(dates, ValueOf(sell_idx), "simulate_trade:229")
        col == IF ~Returned(actual_sell_date) THEN NoCall
               ELSE _find_column_for_ticker(df, ticker)
    IN  [buy_idx |-> buy_idx, sell_idx |-> sell_idx, col |-> col,
         result |->
            IF Raised(buy_ts) THEN buy_ts
            ELSE IF Raised(buy_idx) THEN buy_idx
            ELSE IF Raised(actual_buy_date) THEN actual_buy_date
            ELSE IF Raised(sell_idx) THEN sell_idx
            ELSE IF Raised(actual_sell_date) THEN actual_sell_date
            ELSE IF Raised(col) THEN col
            ELSE LET r == settle_trade(ticker, df, dividends, ValueOf(actual_buy_date),
                                       ValueOf(actual_sell_date), ValueOf(col))
                 IN  IF Raised(r) THEN r
                     ELSE Return([ValueOf(r) EXCEPT !.buy_date = ValueOf(buy_ts)])]

\* simulate_trade, statement by statement: the locals it binds (NoCall for a
\* statement it does not reach) and its outcome
trade_frame(ticker, buy_date, sell_date, hold_days, df, dividends) ==
    LET dates == df.index
        buy_ts == _parse_date(buy_date)
        buy_idx == IF Raised(buy_ts) THEN NoCall
                   ELSE _get_nearest_date_index(dates, ValueOf(buy_ts), "next")
        actual_buy_date == IF ~Returned(buy_idx) THEN NoCall
                           ELSE dates_getitem(dates, ValueOf(buy_idx), "simulate_trade:219")
        sell_idx == IF ~Returned(actual_buy_date) THEN NoCall
                    ELSE resolve_sell_idx(dates, ValueOf(buy_idx), sell_date, hold_days)
        actual_sell_date == IF ~Returned(sell_idx) THEN NoCall
                            ELSE dates_getitem(dates, ValueOf(sell_idx), "simulate_trade:229")
        col == IF ~Returned(actual_sell_date) THEN NoCall
               ELSE _find_column_for_ticker(df, ticker)
    IN  [buy_idx |-> buy_idx, sell_idx |-> sell_idx, col |-> col,
         result |->
            IF Raised(buy_ts) THEN buy_ts
            ELSE IF Raised(buy_idx) THEN buy_idx
            ELSE IF Raised(actual_buy_date) THEN actual_buy_date
            ELSE IF Raised(sell_idx) THEN sell_idx
            ELSE IF Raised(actual_sell_date) THEN actual_sell_date
            ELSE IF Raised(col) THEN col
            ELSE settle_trade(ticker, df, dividends, ValueOf(actual_buy_date),
                              ValueOf(actual_sell_date), ValueOf(col))]

simulate_trade(ticker, buy_date, sell_date, hold_days, df, dividends) ==
    trade_frame(ticker, buy_date, sell_date, hold_days, df, dividends).result

\* 売買シミュレーション.py: the same steps, with the ticker itself as the column
resolve_sell_idx_orig(dates, buy_idx, sell_date, hold_days) ==
    IF sell_date # None
    THEN LET sell_ts == _parse_date_orig(sell_date[1])
         IN  IF Raised(sell_ts) THEN sell_ts
             ELSE _get_nearest_date_index(dates, ValueOf(sell_ts), "prev")
    ELSE IF hold_days # None
    THEN Return(Min(buy_idx + hold_days[1], Len(dates) - 1))
    ELSE Raise("ValueError", "simulate_trade_orig:123")

settle_trade_orig(ticker, df, dividends, actual_buy_date, actual_sell_date) ==
    LET buy_price == price_at(df, actual_buy_date, ticker, "simulate_trade_orig:131")
    IN  IF Raised(buy_price) THEN buy_price
        ELSE
        LET sell_price == price_at(df, actual_sell_date, ticker, "simulate_trade_orig:135")
        IN  IF Raised(sell_price) THEN sell_price
        ELSE
        LET pp == profit_pct(ValueOf(buy_price), ValueOf(sell_price),
                             "simulate_trade_orig:137")
        IN  IF Raised(pp) THEN pp
        ELSE
        LET div == IF dividends # None
                   THEN dividends_in_period_orig(dividends, ticker,
                                                 actual_buy_date, actual_sell_date)
                   ELSE Return(FALSE)
        IN  IF Raised(div) THEN div
        ELSE Return(TradeResult(actual_buy_date, actual_sell_date,
                                ValueOf(buy_price), ValueOf(sell_price),
                                ValueOf(pp), ValueOf(div)))

simulate_trade_orig(ticker, buy_date, sell_date, hold_days, df, dividends) ==
    LET dates == df.index
        buy_ts == _parse_date_orig(buy_date)
    IN  IF Raised(buy_ts) THEN buy_ts
        ELSE
        LET buy_idx == _get_nearest_date_index(dates, ValueOf(buy_ts), "next")
        IN  IF Raised(buy_idx) THEN buy_idx
        ELSE
        LET sell_idx == resolve_sell_idx_orig(dates, ValueOf(buy_idx), sell_date, hold_days)
        IN  IF Raised(sell_idx) THEN sell_idx
        ELSE
        LET actual_sell_date ==
                dates_getitem(dates, ValueOf(sell_idx), "simulate_trade_orig:125")
        IN  IF Raised(actual_sell_date) THEN actual_sell_date
        ELSE settle_trade_orig(ticker, df, dividends,
                               DateAt(dates, ValueOf(buy_idx)),
                               ValueOf(actual_sell_date))

Optional(S) == {None} \cup {Some(x) : x \in S}

\* One call of simulate_trade, with the same arguments, in both modules
SimulateTrade ==
    /\ pc = "idle"
    /\ \E ticker \in SimTickers, buy_date \in DateTexts,
          sell_date \in Optional(DateTexts), hold_days \in Optional(HoldLengths) :
          LET f == trade_frame(ticker, buy_date, sell_date, hold_days,
                               prices_df, dividends_df)
          IN  /\ args' = [call |-> "simulate_trade", ticker |-> ticker,
                          buy_date |-> buy_date, sell_date |-> sell_date,
                          hold_days |-> hold_days]
              /\ locals' = [buy_idx |-> f.buy_idx, sell_idx |-> f.sell_idx, col |-> f.col]
              /\ result' = simulate_trade(ticker, buy_date, sell_date, hold_days,
                                          prices_df, dividends_df)
              /\ result_orig' = simulate_trade_orig(ticker, buy_date, sell_date, hold_days,
                                                    prices_df, dividends_df)
    /\ pc' = "done"
    /\ UNCHANGED <<prices_df, dividends_df, prices_file, runs>>

Init ==
    /\ prices_df \in SimTables
    /\ dividends_df \in SimDividends
    /\ args = None
    /\ locals = None
    /\ pc = "idle"
    /\ result = NoCall
    /\ result_orig = NoCall
    /\ prices_file = None
    /\ runs = <<>>

Next == SimulateTrade

Spec == Init /\ [][Next]_vars

\* the call made was simulate_trade
Simulated == pc = "done" /\ args.call = "simulate_trade"

InvalidRequest == Raise("ValueError", "simulate_trade:227")

PriceLookupSites == {"simulate_trade:236", "simulate_trade:240"}

\* C3 as claimed: with both of sell_date and hold_days, or with neither, the
\* simulation returns no Trade Result and, once the buy date has resolved (the
\* step before), fails with the invalid-request error.
C3_ExactlyOneOrInvalidRequest ==
    (Simulated /\ ((args.sell_date = None) <=> (args.hold_days = None))) =>
        /\ Raised(result)
        /\ Returned(locals.buy_idx) => result = InvalidRequest

\* C3 as amended: with neither, no Trade Result is returned, and the error is
\* the invalid-request error whenever the buy date resolves; with both, the
\* sell date decides and the hold length is ignored, so the invalid-request
\* error is not raised.
C3_NeitherFailsBothUsesSellDate ==
    Simulated =>
        /\ (args.sell_date = None /\ args.hold_days = None) =>
              /\ Raised(result)
              /\ Returned(locals.buy_idx) => result = InvalidRequest
        /\ (args.sell_date # None /\ args.hold_days # None) =>
              /\ result # InvalidRequest
              /\ result = simulate_trade(args.ticker, args.buy_date, args.sell_date,
                                         None, prices_df, dividends_df)
              /\ Returned(locals.buy_idx) =>
                    locals.sell_idx =
                        IF args.sell_date[1].parses
                        THEN _get_nearest_date_index(prices_df.index,
                                                     args.sell_date[1].day, "prev")
                        ELSE Raise("ValueError", "_parse_date:20")

\* C3 witness: neither is supplied, the buy date resolves, the request is refused
C3_Witness ==
    /\ Simulated
    /\ args.sell_date = None
    /\ args.hold_days = None
    /\ Returned(locals.buy_idx)
    /\ result = InvalidRequest

\* C3 witness of the other case: both are supplied and a Trade Result comes
\* back whose sell date is not the one the hold length gives
C3_WitnessBoth ==
    /\ Simulated
    /\ args.sell_date # None
    /\ args.hold_days # None
    /\ Returned(result)
    /\ ValueOf(result).sell_date #
          DateAt(prices_df.index,
                 hold_sell_idx(ValueOf(locals.buy_idx), args.hold_days[1], prices_df.index))

\* C5: with a hold length and no sell date, the sell index is
\* min(buy_idx + length, last_index): never beyond the last index, never below
\* the buy index, and resolving it raises nothing however long the hold is.
C5_HoldClampsToLastDay ==
    (Simulated /\ args.sell_date = None /\ args.hold_days # None
               /\ Returned(locals.buy_idx)) =>
        LET b == ValueOf(locals.buy_idx)
            h == args.hold_days[1]
            last == Len(prices_df.index) - 1
        IN  /\ Returned(locals.sell_idx)
            /\ ValueOf(locals.sell_idx) <= last
            /\ ValueOf(locals.sell_idx) >= b
            /\ b + h <= last => ValueOf(locals.sell_idx) = b + h
            /\ b + h > last => ValueOf(locals.sell_idx) = last
            /\ Returned(result) =>
                  ValueOf(result).sell_date = DateAt(prices_df.index, ValueOf(locals.sell_idx))
            /\ Raised(result) =>
                  result.site \in PriceLookupSites
                                  \cup {"_find_column_for_ticker", "simulate_trade:242"}

\* C5 witness: buy index 0 and hold 100 on a 3-day axis give sell index 2
C5_Witness ==
    /\ Simulated
    /\ args.sell_date = None
    /\ args.hold_days = Some(100)
    /\ Len(prices_df.index) = 3
    /\ locals.buy_idx = Return(0)
    /\ locals.sell_idx = Return(2)
    /\ Returned(result)

\* the dates and the column of the call are resolved
Resolved ==
    /\ Simulated
    /\ Returned(locals.buy_idx)
    /\ Returned(locals.sell_idx)
    /\ Returned(locals.col)

BuyCell ==
    CellAt(prices_df, DateAt(prices_df.index, ValueOf(locals.buy_idx)), ValueOf(locals.col))

SellCell ==
    CellAt(prices_df, DateAt(prices_df.index, ValueOf(locals.sell_idx)), ValueOf(locals.col))

\* C6: when the price cell at the resolved buy date or at the resolved sell
\* date is a gap, simulate_trade fails with the price-lookup error and returns
\* no Trade Result.
C6_GapIsPriceLookupError ==
    (Resolved /\ (BuyCell = NaN \/ SellCell = NaN)) =>
        /\ Raised(result)
        /\ result.exc = "KeyError"
        /\ result.site \in PriceLookupSites

\* C7: when the looked-up buy price is 0, simulate_trade fails with the
\* price-lookup error kind, not with a division error and not with a result.
C7_ZeroBuyPriceIsPriceLookupError ==
    (Resolved /\ BuyCell = Num(0)) =>
        /\ Raised(result)
        /\ result.exc = "KeyError"
        /\ result.site \in PriceLookupSites

\* C10: simulate_trade of trade_simulation.py and of 売買シミュレーション.py
\* have the same outcome: both return the same Trade Result, or both fail.
C10_ModulesAgree ==
    Simulated =>
        /\ Returned(result) <=> Returned(result_orig)
        /\ Returned(result) => ValueOf(result) = ValueOf(result_orig)

\* the trading days of the price table
TradingDays == {prices_df.index[i] : i \in 1 .. Len(prices_df.index)}

\* C11: in every Trade Result simulate_trade returns, with a sell date or
\* with a hold length, the buy date and the sell date are trading days of the
\* price table: the days at the resolved buy index and sell index.
C11_ResultDatesAreTradingDays ==
    (Simulated /\ Returned(result)) =>
        /\ ValueOf(result).buy_date \in TradingDays
        /\ ValueOf(result).sell_date \in TradingDays
        /\ ValueOf(result).buy_date = DateAt(prices_df.index, ValueOf(locals.buy_idx))
        /\ ValueOf(result).sell_date = DateAt(prices_df.index, ValueOf(locals.sell_idx))

\* C11 witness: neither the buy date nor the sell date asked for is a trading
\* day, and a Trade Result comes back
C11_Witness ==
    /\ Simulated
    /\ Returned(result)
    /\ args.buy_date.parses
    /\ args.buy_date.day \notin TradingDays
    /\ args.sell_date # None
    /\ args.sell_date[1].parses
    /\ args.sell_date[1].day \notin TradingDays
    /\ args.hold_days = None

\* C11 witness of the other form: a hold length, the buy date asked for is no
\* trading day, and a Trade Result comes back
C11_WitnessHold ==
    /\ Simulated
    /\ Returned(result)
    /\ args.buy_date.day \notin TradingDays
    /\ args.sell_date = None
    /\ args.hold_days = Some(1)

----------------------------------------------------------------------------
(* The dividend check, called directly and through simulate_trade *)

\* price tables without gaps: one column "3382_T" at price 1
FlatTable(dates) ==
    [index |-> dates, columns |-> <<T_3382uT>>,
     cells |-> <<[i \in 1 .. Len(dates) |-> Num(1)]>>]

DivPriceTables == {FlatTable(SetToSeq(Days)), FlatTable(SetToSeq(Days \ {0}))}

InitDiv ==
    /\ prices_df \in DivPriceTables
    /\ dividends_df \in Optional(DividendTables)
    /\ args = None
    /\ locals = None
    /\ pc = "idle"
    /\ result = NoCall
    /\ result_orig = NoCall
    /\ prices_file = None
    /\ runs = <<>>

NextDiv == DividendsInPeriod \/ SimulateTrade

SpecDiv == InitDiv /\ [][NextDiv]_vars

\* the formats dividends_in_period documents: a "date" column, or dates as index
DocumentedFormat(df) == df.date_col = "date" \/ (df.date_col = "" /\ df.index = "dates")

\* the canonical date of a record: the day of its zone-naive instant
CanonicalDay(df, row) ==
    IF df.date_col # "date" THEN row.idx
    ELSE IF df.tz THEN row.date.day - UtcShift
    ELSE row.date.day

\* the canonical dates on which the table records a dividend for the ticker
RecordDays(df, ticker) ==
    {CanonicalDay(df, df.rows[i]) :
        i \in {k \in 1 .. Len(df.rows) :
                  /\ df.has_ticker => df.rows[k].ticker = ticker
                  /\ df.date_col = "date" => df.rows[k].date.parses}}

C8_WitnessNoData ==
    /\ Simulated
    /\ dividends_df = None
    /\ Returned(result)
    /\ ValueOf(result).dividends_occurred = FALSE

\* the table has the columns devide_test.py writes, "Date" and "Dividend"
FetchedFormat(df) == df.date_col = "Date" /\ df.index = "range" /\ ~df.has_ticker

\* some record of the table is dated inside [start, end]
RecordedWithin(df, start, end) ==
    \E i \in 1 .. Len(df.rows) :
        /\ df.rows[i].date.parses
        /\ start <= df.rows[i].date.day
        /\ df.rows[i].date.day <= end

\* C13: for a dividend table with the columns "Date" and "Dividend" of the
\* repository's own dividend files, dividends_in_period returns true whenever
\* a record is dated inside the inclusive period, and so does the
\* dividends_occurred flag of simulate_trade for its holding period.
C13_FetchedColumnsTolerated ==
    /\ (/\ pc = "done"
        /\ args.call = "dividends_in_period"
        /\ dividends_df # None
        /\ FetchedFormat(dividends_df[1])
        /\ RecordedWithin(dividends_df[1], args.start, args.end))
       => result = Return(TRUE)
    /\ (/\ Simulated
        /\ Returned(result)
        /\ dividends_df # None
        /\ FetchedFormat(dividends_df[1])
        /\ RecordedWithin(dividends_df[1], ValueOf(result).buy_date,
                          ValueOf(result).sell_date))
       => ValueOf(result).dividends_occurred = TRUE

----------------------------------------------------------------------------
(* Command line of trade_simulation.py *)

MaxRuns == 2

\* a label of the first column or of the header line of a price file: text
\* that parses to a day, or other text
DateLabel(d) == [parses |-> TRUE, day |-> d, text |-> <<>>]

TextLabel(x) == [parses |-> FALSE, day |-> 0, text |-> x]

\* pd.read_csv(p, index_col=0): the first column, the header, and the cells,
\* cells[j][i] being the cell of column j in row i
PriceFile(index, columns, cells) == [index |-> index, columns |-> columns, cells |-> cells]

max(a, b) == IF a >= b THEN a ELSE b

\* pd.to_datetime(labels, errors="coerce").notna().sum()
notna_sum(labels) == Cardinality({i \in 1 .. Len(labels) : labels[i].parses})

\* the mutation with a threshold that exactly 90% does not reach
is_date_axis_above(labels) == 10 * notna_sum(labels) > 9 * max(1, Len(labels))

\* valid / max(1, len(labels)) >= 0.9
is_date_axis(labels) == 10 * notna_sum(labels) >= 9 * max(1, Len(labels))

\* the parsed labels, normalized; a label that does not parse is NaT
normalize(labels) ==
    [i \in 1 .. Len(labels) |-> IF labels[i].parses THEN labels[i].day ELSE NaT]

label_texts(labels) == [i \in 1 .. Len(labels) |-> labels[i].text]

\* df.T
transpose(file) ==
    [i \in 1 .. Len(file.index) |-> [j \in 1 .. Len(file.columns) |-> file.cells[j][i]]]

\* lines 36-60: the first candidate that exists is read; None stands for no
\* candidate existing
load_prices(file) ==
    IF file = None THEN Raise("FileNotFoundError", "load_prices:60")
    ELSE LET df == file[1]
         IN  IF is_date_axis(df.index)
             THEN Return([index |-> normalize(df.index),
                          columns |-> label_texts(df.columns),
                          cells |-> df.cells])
             ELSE IF is_date_axis(df.columns)
             THEN Return([index |-> normalize(df.columns),
                          columns |-> label_texts(df.index),
                          cells |-> transpose(df)])
             ELSE Raise("ValueError", "load_prices:58")

\* the third argument: int(arg3) if it is an integer, else the sell date
IntText(n) == [int |-> TRUE, n |-> n, date |-> BadText]

OtherText(d) == [int |-> FALSE, n |-> 0, date |-> d]

Arg3Texts == {IntText(n) : n \in HoldLengths} \cup {OtherText(d) : d \in DateTexts}

CliTickers == {T_3382uT, T_1332dT}

\* a finished run: the exception that ended it ("" for none), where it was
\* raised, the exit status, and whether an except clause of the script caught it
Run(outcome, status, caught) ==
    [exc |-> outcome.exc, site |-> outcome.site, status |-> status, caught |-> caught]

\* lines 281-299 and the interpreter around them: an exception no except
\* clause names ends the process with a traceback and status 1
main(file, dividends, ticker, buy_date, arg3) ==
    LET hold_days == IF arg3.int THEN Some(arg3.n) ELSE None
        sell_date == IF arg3.int THEN None ELSE Some(arg3.date)
        prices == load_prices(file)
    IN  IF Raised(prices)
        THEN IF prices.exc = "FileNotFoundError" THEN Run(prices, 1, TRUE)
             ELSE Run(prices, 1, FALSE)
        ELSE LET res == simulate_trade(ticker, buy_date, sell_date, hold_days,
                                       ValueOf(prices), dividends)
             IN  IF Returned(res) THEN Run(res, 0, TRUE)
                 ELSE IF res.exc = "ValueError" THEN Run(res, 2, TRUE)
                 ELSE IF res.exc = "KeyError" THEN Run(res, 3, TRUE)
                 ELSE Run(res, 1, FALSE)

\* One run of the script from the shell
Main ==
    /\ Len(runs) < MaxRuns
    /\ \E ticker \in CliTickers, buy_date \in DateTexts, arg3 \in Arg3Texts :
          runs' = Append(runs, main(prices_file, dividends_df, ticker, buy_date, arg3))
    /\ UNCHANGED <<prices_df, dividends_df, args, locals, pc, result, result_orig,
                   prices_file>>

CliTables == PriceTables({d \in Axes : Len(d) <= 1}, SimLabels, 1)

\* the file that holds a table with one line per trading day
ByRows(t) ==
    PriceFile([i \in 1 .. Len(t.index) |-> DateLabel(t.index[i])],
              [j \in 1 .. Len(t.columns) |-> TextLabel(t.columns[j])],
              t.cells)

\* the file that holds a table with one line per ticker
ByColumns(t) ==
    PriceFile([j \in 1 .. Len(t.columns) |-> TextLabel(t.columns[j])],
              [i \in 1 .. Len(t.index) |-> DateLabel(t.index[i])],
              [i \in 1 .. Len(t.index) |->
                  [j \in 1 .. Len(t.columns) |-> t.cells[j][i]]])

\* a file with no dates on either axis
Undated == PriceFile(<<TextLabel(T_3382dT)>>, <<TextLabel(T_1332dT)>>, <<<<Num(1)>>>>)

CliFiles ==
    {None, Some(Undated)}
    \cup {Some(ByRows(t)) : t \in CliTables}
    \cup {Some(ByColumns(t)) : t \in CliTables}

InitCli ==
    /\ prices_df = NoTable(<<>>)
    /\ dividends_df \in SimDividends
    /\ args = None
    /\ locals = None
    /\ pc = "idle"
    /\ result = NoCall
    /\ result_orig = NoCall
    /\ prices_file \in CliFiles
    /\ runs = <<>>

NextCli == Main

SpecCli == InitCli /\ [][NextCli]_vars

\* the error kind of the taxonomy that a raise statement stands for
ErrorKind(site) ==
    CASE site = "_parse_date:20" -> "DateParseError"
      [] site \in {"_get_nearest_date_index:next", "_get_nearest_date_index:prev"}
            -> "NoTradingDayError"
      [] site = "_find_column_for_ticker" -> "TickerNotFoundError"
      [] site = "load_prices:58" -> "FormatError"
      [] site = "load_prices:60" -> "SourceNotFoundError"
      [] site \in PriceLookupSites -> "PriceLookupError"
      [] site = "simulate_trade:227" -> "InvalidRequestError"
      [] OTHER -> "none"

Taxonomy ==
    {"DateParseError", "NoTradingDayError", "TickerNotFoundError", "FormatError",
     "SourceNotFoundError", "PriceLookupError", "InvalidRequestError"}

\* C9: every error kind of the taxonomy ends the process with its own exit
\* status: two runs that fail with different kinds exit with different codes,
\* and no kind leaves through an unhandled path.
C9_DistinctExitStatusPerKind ==
    /\ \A i \in 1 .. Len(runs) :
          ErrorKind(runs[i].site) \in Taxonomy => runs[i].caught
    /\ \A i, j \in 1 .. Len(runs) :
          (/\ ErrorKind(runs[i].site) \in Taxonomy
           /\ ErrorKind(runs[j].site) \in Taxonomy
           /\ ErrorKind(runs[i].site) # ErrorKind(runs[j].site))
          => runs[i].status # runs[j].status

----------------------------------------------------------------------------
(* load_prices over its candidate paths *)

MaxLabels == 20

\* lengths of an axis around the lengths where 90% is a whole number of labels
AxisLengths == {0, 1, 9, 10, 11, MaxLabels}

\* at most this many labels of an axis are no dates
MaxBad == 3

\* an axis of n labels of which the last bad ones are no dates
LabelAxis(n, bad) ==
    [i \in 1 .. n |-> IF i <= n - bad THEN DateLabel(i) ELSE TextLabel(<<"x", ToString(i)>>)]

LabelAxes ==
    UNION {{LabelAxis(n, b) : b \in {x \in 0 .. MaxBad : x <= n}} : n \in AxisLengths}

\* a file with the given axes; its cell in column j and row i holds the
\* number MaxLabels * j + i, which names the place
GridFile(index, columns) ==
    PriceFile(index, columns,
              [j \in 1 .. Len(columns) |-> [i \in 1 .. Len(index) |-> Num(MaxLabels * j + i)]])

GridFiles == {GridFile(r, c) : r \in LabelAxes, c \in LabelAxes}

\* the candidate paths of lines 31-34, each with the file it names or None
\* when os.path.exists is false: the path given, then two fixed places
CandidateLists ==
    {<<a, b, c>> : a \in {None, Some(Undated)},
                   b \in Optional(GridFiles),
                   c \in {None, Some(GridFile(LabelAxis(1, 0), LabelAxis(1, 1)))}}

\* for p in candidates: if os.path.exists(p): the first file that exists
RECURSIVE first_existing(_)
first_existing(candidates) ==
    IF candidates = <<>> THEN None
    ELSE IF Head(candidates) # None THEN Head(candidates)
    ELSE first_existing(Tail(candidates))

\* One call of load_prices
LoadPrices ==
    /\ pc = "idle"
    /\ \E candidates \in CandidateLists :
          /\ args' = [call |-> "load_prices", candidates |-> candidates]
          /\ result' = load_prices(first_existing(candidates))
    /\ pc' = "done"
    /\ UNCHANGED <<prices_df, dividends_df, locals, result_orig, prices_file, runs>>

InitLoad ==
    /\ prices_df = NoTable(<<>>)
    /\ dividends_df = None
    /\ args = None
    /\ locals = None
    /\ pc = "idle"
    /\ result = NoCall
    /\ result_orig = NoCall
    /\ prices_file = None
    /\ runs = <<>>

NextLoad == LoadPrices

SpecLoad == InitLoad /\ [][NextLoad]_vars

\* at least 90% of the labels of the axis parse as dates
ReachesThreshold(labels) ==
    /\ Len(labels) > 0
    /\ 10 * Cardinality({i \in 1 .. Len(labels) : labels[i].parses}) >= 9 * Len(labels)

\* the call made was load_prices and some candidate exists
Loaded ==
    /\ pc = "done"
    /\ args.call = "load_prices"
    /\ \E k \in 1 .. Len(args.candidates) : args.candidates[k] # None

\* the first candidate that exists
FirstFile ==
    args.candidates[CHOOSE k \in 1 .. Len(args.candidates) :
                        /\ args.candidates[k] # None
                        /\ \A m \in 1 .. k - 1 : args.candidates[m] = None][1]

\* C12: for the first existing candidate, load_prices keeps the table when
\* at least 90% of the row labels parse as dates, else transposes it when at
\* least 90% of the column headers do, the row axis of the returned table
\* being those dates; it fails with the format error exactly when neither
\* axis reaches 90%.
C12_LoadPricesOrientation ==
    Loaded =>
        LET f == FirstFile
            rows == ReachesThreshold(f.index)
            cols == ReachesThreshold(f.columns)
            t == ValueOf(result)
        IN  /\ (result = Raise("ValueError", "load_prices:58")) <=> (~rows /\ ~cols)
            /\ Raised(result) <=> (~rows /\ ~cols)
            /\ rows =>
                  /\ Returned(result)
                  /\ Len(t.index) = Len(f.index)
                  /\ \A i \in 1 .. Len(f.index) :
                        f.index[i].parses => t.index[i] = f.index[i].day
                  /\ t.columns = [j \in 1 .. Len(f.columns) |-> f.columns[j].text]
                  /\ t.cells = f.cells
            /\ (~rows /\ cols) =>
                  /\ Returned(result)
                  /\ Len(t.index) = Len(f.columns)
                  /\ \A j \in 1 .. Len(f.columns) :
                        f.columns[j].parses => t.index[j] = f.columns[j].day
                  /\ t.columns = [i \in 1 .. Len(f.index) |-> f.index[i].text]
                  /\ Len(t.cells) = Len(f.index)
                  /\ \A i \in 1 .. Len(f.index) : \A j \in 1 .. Len(f.columns) :
                        t.cells[i][j] = f.cells[j][i]

\* C12 witness: 9 of 10 row labels are dates, the first candidate does not
\* exist, and the table of the second comes back as it is
C12_Witness ==
    /\ Loaded
    /\ args.candidates[1] = None
    /\ Len(FirstFile.index) = 10
    /\ notna_sum(FirstFile.index) = 9
    /\ Returned(result)
    /\ ValueOf(result).cells = FirstFile.cells

\* C12 witness of the transposition: 8 of 10 row labels and 18 of 20 column
\* headers are dates
C12_WitnessTransposed ==
    /\ Loaded
    /\ Len(FirstFile.index) = 10
    /\ notna_sum(FirstFile.index) = 8
    /\ Len(FirstFile.columns) = 20
    /\ notna_sum(FirstFile.columns) = 18
    /\ Returned(result)
    /\ Len(ValueOf(result).index) = 20

\* C12 witness of the failure: 8 of 10 on both axes
C12_WitnessFormatError ==
    /\ Loaded
    /\ Len(FirstFile.index) = 10
    /\ notna_sum(FirstFile.index) = 8
    /\ Len(FirstFile.columns) = 10
    /\ notna_sum(FirstFile.columns) = 8
    /\ result = Raise("ValueError", "load_prices:58")

====
